---- MODULE Spec2Model ----
(***************************************************************************)
(* The research / fact-check refinement loop of ai-research-agent.         *)
(*                                                                         *)
(* The repository holds two versions of the worker:                        *)
(*   src/src/index.ts      fixed AI_CONFIG, askAI throws on every failure  *)
(*   src/unnamed/part_000  configuration from the environment, askAI       *)
(*                         returns {content, error} for provider failures, *)
(*                         optional confidence check in the loop           *)
(* The variable impl says which of the two one run executes; every         *)
(* operator below that differs between them takes its branch from impl.    *)
(*                                                                         *)
(* One behaviour is one POST /start request.  The handler and the stages   *)
(* it calls run to their next await in one piece; pc names the await the   *)
(* invocation is blocked at.  Awaits that follow each other with nothing   *)
(* assigned in between are one position: askAI's result travelling through *)
(* safe() to the stage's `await askAI(...)`, and the stage's answer        *)
(* travelling through safe() to the handler's `await stage.fetch` /        *)
(* `await response.json()`.                                                *)
(***************************************************************************)
EXTENDS Naturals, Sequences, FiniteSets, TLC

\* ------------------------------------------------------------------------
\* Bounds of the model
\* ------------------------------------------------------------------------

\* Largest MAX_ITERATIONS value the environment is given.
MaxIterationsBound == 3

\* ------------------------------------------------------------------------
\* Program constants
\* ------------------------------------------------------------------------

SrcIndex == "src/src/index.ts"
Part000 == "src/unnamed/part_000"
Impls == {SrcIndex, Part000}

\* AI_CONFIG.maxIterations
AI_CONFIG_maxIterations == 2

\* CONFIDENCE_THRESHOLD = "0.9", in tenths
CONFIDENCE_THRESHOLD_tenths == 9

\* ------------------------------------------------------------------------
\* JavaScript values that travel through the handlers
\* ------------------------------------------------------------------------

\* A value is undefined, a string, or an AIResponse object {content, error?}.
\* s is the string (or the object's content); err is the object's error
\* field, "" when the object has none.
Undef == [kind |-> "undefined", s |-> "", err |-> ""]
Str(t) == [kind |-> "string", s |-> t, err |-> ""]
AIResponse(content, error) == [kind |-> "object", s |-> content, err |-> error]

\* !v for the values above: undefined and "" are falsy, objects are truthy.
Falsy(v) == v.kind = "undefined" \/ (v.kind = "string" /\ v.s = "")

\* `${v}` in a template literal.
TemplateString(v) ==
    CASE v.kind = "undefined" -> "undefined"
      [] v.kind = "string" -> v.s
      [] v.kind = "object" -> "[object Object]"

\* A JSON payload: null, or an object whose present fields are `fields`
\* (an absent field keeps a placeholder value that nothing reads).
JsonNull ==
    [kind |-> "null", fields |-> {}, topic |-> Undef, research |-> Undef,
     iteration |-> 0, confidence |-> 0, error |-> "", stack |-> ""]
JsonObject(fs, t, r, i, e, st) ==
    [kind |-> "object", fields |-> fs, topic |-> t, research |-> r,
     iteration |-> i, confidence |-> 0, error |-> e, stack |-> st]

\* d.topic, d.research: undefined when the field is absent.
FieldTopic(d) == IF "topic" \in d.fields THEN d.topic ELSE Undef
FieldResearch(d) == IF "research" \in d.fields THEN d.research ELSE Undef

\* JSON.stringify followed by json(): a field whose value is undefined is
\* dropped, everything else survives.
JsonRoundTrip(d) ==
    [d EXCEPT !.fields =
        {f \in d.fields :
            /\ (f = "topic" => d.topic.kind # "undefined")
            /\ (f = "research" => d.research.kind # "undefined")}]

\* const { topic, iteration = 0 } = ... ; (body.iteration || 0)
IterationOrZero(d) == IF "iteration" \in d.fields THEN d.iteration ELSE 0

\* ------------------------------------------------------------------------
\* Inputs of one run
\* ------------------------------------------------------------------------

Topics == {Undef, Str(""), Str("quantum computing"), Str("tides")}
ApiKeys == {"", "sk-test"}
Digits == <<"0", "1", "2", "3", "4", "5", "6", "7", "8", "9">>
EnvMaxIterations == {Digits[n + 1] : n \in 0..MaxIterationsBound}

\* What a completion request can come back with: the provider's text, a
\* rejection by the provider (non-success status, carries a message) or a
\* transport failure.
Texts == {"draft A", "draft B"}
Outcomes ==
    [kind : {"text"}, text : Texts, message : {""}]
        \cup {[kind |-> "upstream", text |-> "", message |-> "rate limited"],
              [kind |-> "network", text |-> "", message |-> "fetch failed"]}

VARIABLES
    impl,          \* which version of the worker runs
    env,           \* the bindings: OPENAI_API_KEY, MAX_ITERATIONS
    body,          \* the request body of POST /start
    pc,            \* position of the /start handler
    currentData,   \* let currentData
    iteration,     \* let iteration
    finalResult,   \* let finalResult
    askResult,     \* what askAI returned or threw, on its way to the stage
    researchResponse,   \* const researchResponse, or what researcher.fetch threw
    researchData,  \* const researchData of the current pass
    factCheckResponse,  \* const factCheckResponse of the current pass
    response,      \* what /start answered: [status, body], status 0 = not yet
    calls,         \* log of the stage calls of the run, in order
    self,          \* which request's handler invocation is executing
    parked         \* the locals of the other request's invocation, suspended

vars == <<impl, env, body, pc, currentData, iteration, finalResult,
          askResult, researchResponse, researchData, factCheckResponse, response, calls,
          self, parked>>

NoResponse == [status |-> 0, body |-> JsonNull]

\* askAI returned v, or threw an error of class n with message m.
Returned(v) == [threw |-> FALSE, value |-> v, name |-> "", message |-> ""]
Threw(n, m) == [threw |-> TRUE, value |-> Undef, name |-> n, message |-> m]

\* askAI has not been called yet.
NoAskResult == Returned(Undef)

\* What a stage call hands back to the handler: a Response (status, JSON
\* body), or an error thrown through researcher.fetch (its class name and
\* message).  NoStageResponse: no stage call has come back yet.
NoStageResponse ==
    [threw |-> FALSE, status |-> 0, body |-> JsonNull, name |-> "", message |-> ""]
StageAnswered(st, d) ==
    [threw |-> FALSE, status |-> st, body |-> d, name |-> "", message |-> ""]
StageThrew(n, m) ==
    [threw |-> TRUE, status |-> 0, body |-> JsonNull, name |-> n, message |-> m]

\* The locals of an invocation that does not exist (a single request).
NoRun ==
    [body |-> [topic |-> Undef], pc |-> "absent", currentData |-> JsonNull,
     iteration |-> 0, finalResult |-> JsonNull, askResult |-> NoAskResult,
     researchResponse |-> NoStageResponse, researchData |-> JsonNull,
     factCheckResponse |-> NoStageResponse,
     response |-> NoResponse, calls |-> <<>>]

Init ==
    /\ self = 1
    /\ parked = NoRun
    /\ impl \in Impls
    /\ env \in [OPENAI_API_KEY : ApiKeys, MAX_ITERATIONS : EnvMaxIterations]
    /\ body \in [topic : Topics]
    /\ pc = "idle"
    /\ currentData = JsonNull
    /\ iteration = 0
    /\ finalResult = JsonNull
    /\ askResult = NoAskResult
    /\ researchResponse = NoStageResponse
    /\ researchData = JsonNull
    /\ factCheckResponse = NoStageResponse
    /\ response = NoResponse
    /\ calls = <<>>

\* ------------------------------------------------------------------------
\* Configuration
\* ------------------------------------------------------------------------

\* parseInt of a decimal digit string.
ParseInt(str) == CHOOSE n \in 0..9 : Digits[n + 1] = str

\* The iteration cap of the run: AI_CONFIG.maxIterations in src/index.ts,
\* parseInt(c.env.MAX_ITERATIONS.toString() || "5") in part_000.
MaxIterations ==
    IF impl = SrcIndex
    THEN AI_CONFIG_maxIterations
    ELSE ParseInt(IF env.MAX_ITERATIONS = "" THEN "5" ELSE env.MAX_ITERATIONS)

\* ------------------------------------------------------------------------
\* askAI
\* ------------------------------------------------------------------------

KeyNotConfigured == "OpenAI API key not configured"

\* if (!env.OPENAI_API_KEY) throw ...
KeyMissing == env.OPENAI_API_KEY = ""

\* What askAI hands to its caller once the completion request came back with
\* outcome o.  src/index.ts returns the text, throws new Error(`OpenAI API:
\* ${message}`) on a rejection and lets the TypeError of a failed fetch
\* through; part_000 catches both and returns {content: '', error: message},
\* and wraps the text in {content}.
AskAI(o) ==
    IF impl = SrcIndex
    THEN CASE o.kind = "text" -> Returned(Str(o.text))
           [] o.kind = "upstream" -> Threw("Error", "OpenAI API: " \o o.message)
           [] o.kind = "network" -> Threw("TypeError", o.message)
    ELSE CASE o.kind = "text" -> Returned(AIResponse(o.text, ""))
           [] OTHER -> Returned(AIResponse("", o.message))

\* ------------------------------------------------------------------------
\* The stages
\* ------------------------------------------------------------------------

\* Mutant of ResearchPrompt: the prompt also carries the prior research of
\* the payload.
ResearchPrompt_WithResearch(data) ==
    "Research this topic: " \o TemplateString(FieldTopic(data))
        \o TemplateString(FieldResearch(data))

\* `Research this topic: ${topic}`
ResearchPrompt(data) == "Research this topic: " \o TemplateString(FieldTopic(data))

\* `Verify and improve: ${body.research}`
FactCheckPrompt(data) == "Verify and improve: " \o TemplateString(FieldResearch(data))

\* The answer of ResearchFetcherDO once askAI returned v for payload data.
ResearchAnswer(data, v) ==
    JsonRoundTrip(JsonObject({"research", "iteration"}, Undef, v,
                             IterationOrZero(data), "", ""))

\* The 400 answer of part_000's ResearchFetcherDO when the topic is falsy.
NoTopicAnswer == JsonObject({"error"}, Undef, Undef, 0, "No topic provided", "")

\* The answer of FactCheckerDO once askAI returned v for payload data.
FactCheckAnswer(data, v) ==
    JsonRoundTrip(JsonObject({"research", "iteration"}, Undef, v,
                             IterationOrZero(data) + 1, "", ""))

\* The frames that follow the first line of error.stack: one "    at ..."
\* line per frame of the throw site, as the runtime renders them.
StackFrames == "\n    at <frames of the throw site>"

\* error.stack of an error of class n with message m.
ErrorStack(n, m) == n \o ": " \o m \o StackFrames

\* The status-500 answer of FactCheckerDO's catch block for a caught error
\* of class n with message m: {error: error.message, stack: error.stack}.
FactCheckError(n, m) ==
    JsonObject({"error", "stack"}, Undef, Undef, 0, m, ErrorStack(n, m))

\* ------------------------------------------------------------------------
\* Log of stage calls
\* ------------------------------------------------------------------------

\* One entry per stage call: the payload the stage received, whether it
\* issued a completion request and with which prompt, and how its completion
\* ended: "pending" (the stage was called and has no completion yet), "ok"
\* (text), "failed" (rejected, transport failure or no credential), "none"
\* (the stage answered without asking).
Call(stage, data, issued, prompt, outcome, text, message) ==
    [stage |-> stage, input |-> data, issued |-> issued, prompt |-> prompt,
     outcome |-> outcome, text |-> text, message |-> message]

\* The last entry with its prompt p, issued or not, and how it ended so far.
Asked(log, issued, p, outcome, m) ==
    [log EXCEPT ![Len(log)] =
        [@ EXCEPT !.issued = issued, !.prompt = p, !.outcome = outcome,
                  !.message = m]]

\* The pending entry (the last one) completed with outcome o.
Complete(log, o) ==
    [log EXCEPT ![Len(log)] =
        [@ EXCEPT !.outcome = IF o.kind = "text" THEN "ok" ELSE "failed",
                  !.text = o.text,
                  !.message = o.message]]

\* ------------------------------------------------------------------------
\* POST /start
\* ------------------------------------------------------------------------

\* Mutant of LoopGuard: the cap tested with <= (one pass too many).
LoopGuard_OffByOne(i, max) == i <= max

\* while (iteration < maxIterations)
LoopGuard(i, max) == i < max

\* Mutant of NextIteration: the counter advanced by two.
NextIteration_ByTwo(i) == i + 2

\* iteration++ ; iteration: iteration + 1
NextIteration(i) == i + 1

\* finalResult?.confidence >= config.confidenceThreshold (part_000 only).
ConfidenceReached(result) ==
    /\ impl = Part000
    /\ result.kind = "object"
    /\ "confidence" \in result.fields
    /\ result.confidence >= CONFIDENCE_THRESHOLD_tenths

\* Mutant of ResearchAwaited: the fact checker is called without awaiting
\* the researcher.
ResearchAwaited_NoAwait == pc \in {"factCheck", "awaitResearch"}

\* The handler is past `await researchResponse.json()`.
ResearchAwaited == pc = "factCheck"

\* The handler is at the loop test with the previous pass finished.
PassFinished == pc = "loop"

\* Mutant of Fail: the error escapes the handler and nothing is answered.
Fail_Unhandled(m) ==
    /\ response' = response
    /\ pc' = "threw"

\* catch (error) { return c.json({ error: error.message }, 500) }
Fail(m) ==
    /\ response' = [status |-> 500,
                    body |-> JsonObject({"error"}, Undef, Undef, 0, m, "")]
    /\ pc' = "failed"

\* Mutant of LoopEnd: the next pass's topic is taken from the fact
\* checker's answer instead of the request.
LoopEnd_TopicFromResult(fr) ==
    /\ finalResult' = fr
    /\ currentData' = JsonObject({"topic", "research", "iteration"}, FieldResearch(fr),
                                 FieldResearch(fr), NextIteration(iteration), "", "")
    /\ IF ConfidenceReached(fr)
       THEN iteration' = iteration /\ pc' = "return"
       ELSE iteration' = NextIteration(iteration) /\ pc' = "loop"

\* The rest of a loop pass once the fact checker answered fr.
LoopEnd(fr) ==
    /\ finalResult' = fr
    /\ currentData' = JsonObject({"topic", "research", "iteration"}, body.topic,
                                 FieldResearch(fr), NextIteration(iteration), "", "")
    /\ IF ConfidenceReached(fr)
       THEN iteration' = iteration /\ pc' = "return"
       ELSE iteration' = NextIteration(iteration) /\ pc' = "loop"

\* app.post('/start', ...) is invoked: c.req.json() is called and awaited.
Start ==
    /\ pc = "idle"
    /\ pc' = "awaitBody"
    /\ UNCHANGED <<askResult, impl, env, body, currentData, iteration, finalResult,
                   researchResponse, researchData, factCheckResponse, response,
                   calls>>
    /\ UNCHANGED <<self, parked>>

\* const body = await c.req.json(); let currentData = ...; let iteration = 0
ReadBody ==
    /\ pc = "awaitBody"
    /\ currentData' = JsonObject({"topic", "iteration"}, body.topic, Undef, 0, "", "")
    /\ iteration' = 0
    /\ finalResult' = JsonNull
    /\ pc' = "loop"
    /\ UNCHANGED <<askResult, impl, env, body, researchResponse, researchData,
                   factCheckResponse, response, calls>>
    /\ UNCHANGED <<self, parked>>

\* The loop test passes and researcher.fetch(JSON.stringify(currentData)) is
\* called: ResearchFetcherDO.fetch runs up to `await request.json()`.
ResearchCall ==
    /\ PassFinished
    /\ LoopGuard(iteration, MaxIterations)
    /\ calls' = Append(calls, Call("research", JsonRoundTrip(currentData), FALSE, "",
                                   "pending", "", ""))
    /\ pc' = "inResearch"
    /\ UNCHANGED <<askResult, impl, env, body, currentData, iteration, finalResult,
                   researchResponse, researchData, factCheckResponse, response>>
    /\ UNCHANGED <<self, parked>>

\* ResearchFetcherDO.fetch from the parsed payload to its next await: the
\* topic test, the prompt, askAI's credential test, and the completion
\* request or the throw of askAI.
ResearchFetch ==
    /\ pc = "inResearch"
    /\ LET data == calls[Len(calls)].input IN
        IF Falsy(FieldTopic(data))
        THEN /\ calls' = Asked(calls, FALSE, "", "none", "")
             /\ researchResponse' =
                    IF impl = SrcIndex
                    THEN StageThrew("Error", "No topic provided")
                    ELSE StageAnswered(400, NoTopicAnswer)
             /\ pc' = "researchAnswered"
             /\ UNCHANGED askResult
        ELSE IF KeyMissing
        THEN /\ calls' = Asked(calls, FALSE, ResearchPrompt(data), "failed",
                               KeyNotConfigured)
             /\ askResult' = Threw("Error", KeyNotConfigured)
             /\ pc' = "researchAsked"
             /\ UNCHANGED researchResponse
        ELSE /\ calls' = Asked(calls, TRUE, ResearchPrompt(data), "pending", "")
             /\ pc' = "awaitResearch"
             /\ UNCHANGED <<askResult, researchResponse>>
    /\ UNCHANGED <<impl, env, body, currentData, iteration, finalResult,
                   researchData, factCheckResponse, response>>
    /\ UNCHANGED <<self, parked>>

\* The completion request of the research stage comes back with outcome o:
\* askAI returns or throws.
ResearchCompletion(o) ==
    /\ pc = "awaitResearch"
    /\ calls' = Complete(calls, o)
    /\ askResult' = AskAI(o)
    /\ pc' = "researchAsked"
    /\ UNCHANGED <<impl, env, body, currentData, iteration, finalResult,
                   researchResponse, researchData, factCheckResponse, response>>
    /\ UNCHANGED <<self, parked>>

\* const research = await askAI(...): the stage answers {research,
\* iteration}, or safe passes askAI's error on to the caller.
ResearchRespond ==
    /\ pc = "researchAsked"
    /\ researchResponse' =
            IF askResult.threw
            THEN StageThrew(askResult.name, askResult.message)
            ELSE StageAnswered(200, ResearchAnswer(calls[Len(calls)].input,
                                                   askResult.value))
    /\ pc' = "researchAnswered"
    /\ UNCHANGED <<askResult, impl, env, body, currentData, iteration, finalResult,
                   researchData, factCheckResponse, response, calls>>
    /\ UNCHANGED <<self, parked>>

\* const researchData = await researchResponse.json(), or the handler's
\* catch when researcher.fetch threw.
ResearchReturn ==
    /\ pc = "researchAnswered"
    /\ IF researchResponse.threw
       THEN Fail(researchResponse.message) /\ UNCHANGED researchData
       ELSE /\ researchData' = researchResponse.body
            /\ pc' = "factCheck"
            /\ UNCHANGED response
    /\ UNCHANGED <<askResult, impl, env, body, currentData, iteration, finalResult,
                   researchResponse, factCheckResponse, calls>>
    /\ UNCHANGED <<self, parked>>

\* factChecker.fetch(JSON.stringify(researchData)) is called:
\* FactCheckerDO.fetch runs up to `await request.json()`.
FactCheckCall ==
    /\ ResearchAwaited
    /\ calls' = Append(calls, Call("factCheck", JsonRoundTrip(researchData), FALSE, "",
                                   "pending", "", ""))
    /\ pc' = "inFactCheck"
    /\ UNCHANGED <<askResult, impl, env, body, currentData, iteration, finalResult,
                   researchResponse, researchData, factCheckResponse, response>>
    /\ UNCHANGED <<self, parked>>

\* FactCheckerDO.fetch from the parsed payload to its next await: the
\* prompt, askAI's credential test, and the completion request or the throw
\* of askAI.
FactCheckFetch ==
    /\ pc = "inFactCheck"
    /\ LET data == calls[Len(calls)].input IN
        IF KeyMissing
        THEN /\ calls' = Asked(calls, FALSE, FactCheckPrompt(data), "failed",
                               KeyNotConfigured)
             /\ askResult' = Threw("Error", KeyNotConfigured)
             /\ pc' = "factCheckAsked"
        ELSE /\ calls' = Asked(calls, TRUE, FactCheckPrompt(data), "pending", "")
             /\ pc' = "awaitFactCheck"
             /\ UNCHANGED askResult
    /\ UNCHANGED <<impl, env, body, currentData, iteration, finalResult,
                   researchResponse, researchData, factCheckResponse, response>>
    /\ UNCHANGED <<self, parked>>

\* The completion request of the fact checker comes back with outcome o:
\* askAI returns or throws.
FactCheckCompletion(o) ==
    /\ pc = "awaitFactCheck"
    /\ calls' = Complete(calls, o)
    /\ askResult' = AskAI(o)
    /\ pc' = "factCheckAsked"
    /\ UNCHANGED <<impl, env, body, currentData, iteration, finalResult,
                   researchResponse, researchData, factCheckResponse, response>>
    /\ UNCHANGED <<self, parked>>

\* const refined = await askAI(...): the stage answers {research,
\* iteration + 1}, or its catch answers {error, stack} with status 500.
FactCheckRespond ==
    /\ pc = "factCheckAsked"
    /\ factCheckResponse' =
            IF askResult.threw
            THEN StageAnswered(500, FactCheckError(askResult.name, askResult.message))
            ELSE StageAnswered(200, FactCheckAnswer(calls[Len(calls)].input,
                                                    askResult.value))
    /\ pc' = "factCheckAnswered"
    /\ UNCHANGED <<askResult, impl, env, body, currentData, iteration, finalResult,
                   researchResponse, researchData, response, calls>>
    /\ UNCHANGED <<self, parked>>

\* finalResult = await factCheckResponse.json() and the rest of the pass.
FactCheckReturn ==
    /\ pc = "factCheckAnswered"
    /\ LoopEnd(factCheckResponse.body)
    /\ UNCHANGED <<askResult, impl, env, body, researchResponse, researchData,
                   factCheckResponse, response, calls>>
    /\ UNCHANGED <<self, parked>>

\* return c.json(finalResult)
Return ==
    /\ \/ PassFinished /\ ~LoopGuard(iteration, MaxIterations)
       \/ pc = "return"
    /\ response' = [status |-> 200, body |-> finalResult]
    /\ pc' = "done"
    /\ UNCHANGED <<askResult, impl, env, body, currentData, iteration, finalResult,
                   researchResponse, researchData, factCheckResponse, calls>>
    /\ UNCHANGED <<self, parked>>

Next ==
    \/ Start
    \/ ReadBody
    \/ ResearchCall
    \/ ResearchFetch
    \/ \E o \in Outcomes : ResearchCompletion(o)
    \/ ResearchRespond
    \/ ResearchReturn
    \/ FactCheckCall
    \/ FactCheckFetch
    \/ \E o \in Outcomes : FactCheckCompletion(o)
    \/ FactCheckRespond
    \/ FactCheckReturn
    \/ Return

Spec == Init /\ [][Next]_vars

\* ------------------------------------------------------------------------
\* Two requests served by the same worker
\* ------------------------------------------------------------------------

\* Largest MAX_ITERATIONS value of the two-request system.
TwoRunCap == 1

\* The topics of the two requests: the first asks for "quantum computing" or
\* sends no topic, the second also may ask for "tides".
TwoRunTopics == {Undef, Str("quantum computing"), Str("tides")}

\* The text the provider returns to the requests of the first and of the
\* second invocation: each has its own, so that a text is known by the
\* invocation it was returned to.
TwoRunTexts == <<"draft A", "draft B">>

\* The completions of the two-request system, for the executing invocation:
\* its text, or a rejection by the provider.
TwoRunOutcomes ==
    {o \in Outcomes :
        \/ o.kind = "upstream"
        \/ o.kind = "text" /\ o.text = TwoRunTexts[self]}

\* The variables declared inside the /start handler: each invocation has
\* its own.
Locals ==
    [body |-> body, pc |-> pc, currentData |-> currentData,
     iteration |-> iteration, finalResult |-> finalResult,
     askResult |-> askResult, researchResponse |-> researchResponse, researchData |-> researchData,
     factCheckResponse |-> factCheckResponse,
     response |-> response, calls |-> calls]

\* Mutant of Resume: `iteration` is a module-level variable that both
\* invocations share.
Resume_SharedCounter(saved) ==
    /\ body' = saved.body
    /\ pc' = saved.pc
    /\ currentData' = saved.currentData
    /\ iteration' = iteration
    /\ finalResult' = saved.finalResult
    /\ askResult' = saved.askResult
    /\ researchResponse' = saved.researchResponse
    /\ researchData' = saved.researchData
    /\ factCheckResponse' = saved.factCheckResponse
    /\ response' = saved.response
    /\ calls' = saved.calls

\* An invocation continues with the locals it was suspended with.
Resume(saved) ==
    /\ body' = saved.body
    /\ pc' = saved.pc
    /\ currentData' = saved.currentData
    /\ iteration' = saved.iteration
    /\ finalResult' = saved.finalResult
    /\ askResult' = saved.askResult
    /\ researchResponse' = saved.researchResponse
    /\ researchData' = saved.researchData
    /\ factCheckResponse' = saved.factCheckResponse
    /\ response' = saved.response
    /\ calls' = saved.calls

\* The executing invocation is blocked at an await (or has not begun, or
\* has answered): only there can the other invocation run.  At "loop",
\* "factCheck" and "return" the handler is in the middle of the code it runs
\* between two awaits.
Suspended ==
    pc \in {"idle", "awaitBody", "inResearch", "awaitResearch", "researchAsked",
            "researchAnswered", "inFactCheck", "awaitFactCheck", "factCheckAsked",
            "factCheckAnswered", "done", "failed"}

\* The event loop turns from one invocation to the other.
Switch ==
    /\ parked.pc # "absent"
    /\ Suspended
    /\ parked' = Locals
    /\ Resume(parked)
    /\ self' = 3 - self
    /\ UNCHANGED <<impl, env>>

\* Both requests have arrived; neither handler has run yet.  The second
\* request asks for the same topic as the first or for another one, and
\* either may come without a topic.
InitTwo ==
    /\ self = 1
    /\ impl \in Impls
    /\ env \in [OPENAI_API_KEY : ApiKeys,
                MAX_ITERATIONS : {Digits[n + 1] : n \in 1..TwoRunCap}]
    /\ body \in [topic : TwoRunTopics \ {Str("tides")}]
    /\ pc = "idle"
    /\ currentData = JsonNull
    /\ iteration = 0
    /\ finalResult = JsonNull
    /\ askResult = NoAskResult
    /\ researchResponse = NoStageResponse
    /\ researchData = JsonNull
    /\ factCheckResponse = NoStageResponse
    /\ response = NoResponse
    /\ calls = <<>>
    /\ parked \in {[NoRun EXCEPT !.pc = "idle", !.body = b] : b \in [topic : TwoRunTopics]}

NextTwo ==
    \/ Start
    \/ ReadBody
    \/ ResearchCall
    \/ ResearchFetch
    \/ \E o \in TwoRunOutcomes : ResearchCompletion(o)
    \/ ResearchRespond
    \/ ResearchReturn
    \/ FactCheckCall
    \/ FactCheckFetch
    \/ \E o \in TwoRunOutcomes : FactCheckCompletion(o)
    \/ FactCheckRespond
    \/ FactCheckReturn
    \/ Return
    \/ Switch

SpecTwo == InitTwo /\ [][NextTwo]_vars

\* The same run when every step that can be taken eventually is: the
\* handler's synchronous steps run to the next await, and every completion
\* request eventually returns or fails.
FairSpec == Spec /\ WF_vars(Next)

\* ------------------------------------------------------------------------
\* Vocabulary of the properties
\* ------------------------------------------------------------------------

ResearchCalls == {i \in 1..Len(calls) : calls[i].stage = "research"}
FactCheckCalls == {i \in 1..Len(calls) : calls[i].stage = "factCheck"}

\* Fact-check passes whose completion request returned text.
FactChecksSucceeded == {i \in FactCheckCalls : calls[i].outcome = "ok"}

\* The run is over: /start has answered.
Done == pc = "done"
Failed == pc = "failed"

\* The completion of the stage called last is over and its result is on
\* its way back to the handler, which has not resumed with it yet.
StageReturning ==
    pc \in {"researchAsked", "researchAnswered", "factCheckAsked", "factCheckAnswered"}

\* The run is within the orchestrator's domain: a non-empty topic and an
\* iteration cap of at least one.
ValidRun == ~Falsy(body.topic) /\ MaxIterations >= 1

\* No completion call of the run has failed so far (a missing credential
\* counts as a failure of the call).
NoCallFailed == \A i \in 1..Len(calls) : calls[i].outcome # "failed"

\* The message /start reports is the one call c failed with (src/index.ts
\* prefixes the provider's message with "OpenAI API: ").
ReportsErrorOf(c) ==
    /\ response.status = 500
    /\ "error" \in response.body.fields
    /\ response.body.error \in {c.message, "OpenAI API: " \o c.message}

\* ------------------------------------------------------------------------
\* Properties
\* ------------------------------------------------------------------------

\* C1: a run with iteration cap N issues at most N research stage calls and
\* at most N fact-check stage calls, so once N fact-check passes have
\* completed no further stage call follows.
C1_AtMostNRoundTrips ==
    /\ Cardinality(ResearchCalls) <= MaxIterations
    /\ Cardinality(FactCheckCalls) <= MaxIterations

\* A run of part_000 with a non-empty topic and cap 3 that has answered
\* after its third fact-check pass, every stage call having issued its
\* completion request.
C1_Witness ==
    /\ impl = Part000
    /\ ValidRun
    /\ MaxIterations = 3
    /\ Cardinality(ResearchCalls) = 3
    /\ Cardinality(FactCheckCalls) = 3
    /\ \A i \in 1..Len(calls) : calls[i].issued
    /\ Done

\* C2: whenever a run (non-empty topic, cap >= 1) returns a result, the
\* result's iteration field equals the number of fact-check passes that
\* completed successfully and does not exceed the cap, whatever succeeded
\* or failed on the way.
C2_IterationCountsFactChecks ==
    (Done /\ ValidRun) =>
        /\ "iteration" \in response.body.fields
        /\ response.body.iteration = Cardinality(FactChecksSucceeded)
        /\ response.body.iteration <= MaxIterations

\* C3: if the completion call of the first research stage call fails, then
\* once the handler has resumed from that stage call the run is Failed with
\* that error and no fact-check call is issued.
C3_FirstResearchFailureFails ==
    (Len(calls) >= 1 /\ calls[1].stage = "research" /\ calls[1].outcome = "failed"
        /\ ~StageReturning) =>
        /\ Failed
        /\ ReportsErrorOf(calls[1])
        /\ FactCheckCalls = {}

\* C4: if the completion call of a fact-check pass fails (in a run with a
\* non-empty topic and a cap >= 1), then once the handler has resumed from
\* that stage call the run is Failed with that error, that call is the last
\* stage call of the run, and the answer is the error, not a success
\* response and not the research produced earlier.
C4_FactCheckFailureFails ==
    (ValidRun /\ ~StageReturning) =>
        \A i \in FactCheckCalls :
            calls[i].outcome = "failed" =>
                /\ Failed
                /\ ReportsErrorOf(calls[i])
                /\ "research" \notin response.body.fields
                /\ i = Len(calls)

\* C5: when every completion call succeeds (no result ever carries a
\* confidence value), a run with a non-empty topic and cap N >= 1 does not
\* fail, and when it has answered it has made exactly N research calls and
\* N fact-check calls and returns iteration = N.
C5_ExactlyNRoundTrips ==
    (ValidRun /\ NoCallFailed) =>
        /\ ~Failed
        /\ Done =>
            /\ response.status = 200
            /\ Cardinality(ResearchCalls) = MaxIterations
            /\ Cardinality(FactCheckCalls) = MaxIterations
            /\ \A i \in 1..Len(calls) : calls[i].issued /\ calls[i].outcome = "ok"
            /\ "iteration" \in response.body.fields
            /\ response.body.iteration = MaxIterations
            /\ "confidence" \notin response.body.fields

\* A run with cap 3 that answered after three round trips without a failure.
C5_Witness ==
    /\ Done
    /\ ValidRun
    /\ NoCallFailed
    /\ MaxIterations = 3
    /\ Len(calls) = 6

\* C6: when a run in which every call succeeded is Done, the research it
\* returns is exactly the text the last fact-check call produced.
C6_ReturnsLastFactCheckText ==
    (Done /\ ValidRun /\ NoCallFailed) =>
        /\ calls[Len(calls)].stage = "factCheck"
        /\ FieldResearch(response.body) = Str(calls[Len(calls)].text)

\* C7: a run configured with an iteration cap of 0 (the request and the
\* credential being in order) ends with an error, never with a success
\* response carrying an empty or null result.
C7_ZeroIterationsRejected ==
    (MaxIterations = 0 /\ ~Falsy(body.topic) /\ ~KeyMissing /\ (Done \/ Failed)) =>
        /\ Failed
        /\ response.status = 500
        /\ response.body.kind # "null"

\* C8: the stage calls of a run alternate research, fact-check, research,
\* ..., and a call is outstanding only while it is the latest one: a stage
\* call starts only after the previous one has returned, and no two
\* completion requests are outstanding together.
C8_SequentialAlternating ==
    /\ \A i \in 1..Len(calls) :
        calls[i].stage = IF i % 2 = 1 THEN "research" ELSE "factCheck"
    /\ \A i \in 1..Len(calls) : calls[i].outcome = "pending" => i = Len(calls)
    /\ Cardinality({i \in 1..Len(calls) : calls[i].outcome = "pending"}) <= 1

\* The research call of the second pass is outstanding, after the first
\* pass's research and fact-check calls both returned.
C8_Witness ==
    /\ Len(calls) = 3
    /\ calls[3].outcome = "pending"
    /\ calls[1].outcome = "ok"
    /\ calls[2].outcome = "ok"

\* C9: a research call that receives the refined research of the previous
\* pass builds its prompt from it: the prompt is not the topic-only prompt
\* the first research call of the run sent.
C9_PromptUsesPriorResearch ==
    \A i \in ResearchCalls :
        (i > 1 /\ calls[i].issued /\ calls[1].issued
            /\ "research" \in calls[i].input.fields) =>
            calls[i].prompt # calls[1].prompt

\* No answer of a stage and no result of the run ever carries a confidence
\* field, so the confidence test of part_000's loop never succeeds and the
\* handler never leaves the loop through its break.
NoConfidenceSupplied ==
    /\ "confidence" \notin finalResult.fields
    /\ "confidence" \notin researchData.fields
    /\ "confidence" \notin researchResponse.body.fields
    /\ "confidence" \notin factCheckResponse.body.fields
    /\ "confidence" \notin response.body.fields
    /\ pc # "return"

\* C11: a completion request that was rejected or failed in transport is
\* never turned into a successful result: askAI fails, so once the handler
\* has resumed from the stage call the research stage has failed the run
\* with that error, and the fact checker's result is an error and not a
\* research text.
C11_FailureNeverDowngraded ==
    (Len(calls) >= 1 /\ calls[Len(calls)].issued
        /\ calls[Len(calls)].outcome = "failed" /\ ~StageReturning) =>
        IF calls[Len(calls)].stage = "research"
        THEN Failed /\ ReportsErrorOf(calls[Len(calls)])
        ELSE /\ "error" \in finalResult.fields
             /\ "research" \notin finalResult.fields

\* C14: the topic is the request's topic throughout the run: the handler's
\* currentData carries it from the start on, and every research stage call
\* receives it (an undefined topic is dropped from the payload and read
\* back as undefined).
C14_TopicNeverChanges ==
    /\ pc \notin {"idle", "awaitBody"} =>
        /\ "topic" \in currentData.fields
        /\ currentData.topic = body.topic
    /\ \A i \in ResearchCalls : FieldTopic(calls[i].input) = body.topic

\* The research call of a second pass was issued with the refined research
\* of the first pass in its payload.
C14_Witness ==
    /\ ~Falsy(body.topic)
    /\ Len(calls) >= 3
    /\ calls[3].stage = "research"
    /\ calls[3].issued
    /\ "research" \in calls[3].input.fields

\* C16: no answer of /start to a run with a non-empty topic and a cap >= 1
\* carries a stack trace, whatever failed on the way.
C16_NoStackTrace ==
    ValidRun => "stack" \notin response.body.fields

\* C17: in a run with a non-empty topic and a cap >= 1, after every loop
\* pass the iteration of the fact checker's result equals the loop counter
\* after its increment, which is the iteration the next research call is
\* sent.
C17_CounterInStep ==
    (ValidRun /\ pc = "loop" /\ iteration >= 1) =>
        /\ "iteration" \in finalResult.fields
        /\ finalResult.iteration = iteration
        /\ "iteration" \in currentData.fields
        /\ currentData.iteration = iteration

\* C18: a run whose topic is missing or empty (the credential being
\* configured and the cap >= 1) issues no completion request and ends with
\* the error "No topic provided", never with a success response.
C18_MissingTopicRejected ==
    (Falsy(body.topic) /\ ~KeyMissing /\ MaxIterations >= 1) =>
        /\ \A i \in 1..Len(calls) : ~calls[i].issued
        /\ ~Done
        /\ Failed =>
            /\ response.status = 500
            /\ response.body.error = "No topic provided"

\* C13: every run eventually reaches Done or Failed, given that every
\* completion request eventually returns or fails.
C13_RunTerminates == <>(Done \/ Failed)

\* A run with a non-empty topic that went through two full passes, every
\* stage call issuing its completion request and one fact-check request
\* failing, and has answered.
C13_Witness ==
    /\ Done
    /\ ValidRun
    /\ Len(calls) >= 4
    /\ \A i \in 1..Len(calls) : calls[i].issued
    /\ \E i \in FactCheckCalls : calls[i].outcome = "failed"

\* ------------------------------------------------------------------------
\* What one run's own topic and own completions determine
\* ------------------------------------------------------------------------

\* The outcome a completed call of the log came back with.
OutcomeOf(c) == CHOOSE o \in Outcomes : o.text = c.text /\ o.message = c.message

\* What the research stage answered for its logged call c.
ResearchAnswerOf(c) ==
    IF c.outcome = "none"
    THEN NoTopicAnswer
    ELSE ResearchAnswer(c.input, AskAI(OutcomeOf(c)).value)

\* What the fact checker answered for its logged call c.
FactCheckResultOf(c) ==
    IF ~c.issued
    THEN FactCheckError("Error", KeyNotConfigured)
    ELSE LET r == AskAI(OutcomeOf(c)) IN
         IF r.threw
         THEN FactCheckError(r.name, r.message)
         ELSE FactCheckAnswer(c.input, r.value)

\* The loop passes of locals L that are over: the fact-check calls whose
\* answer the handler has resumed with.
PassesOver(L) ==
    IF L.pc \in {"inFactCheck", "awaitFactCheck", "factCheckAsked", "factCheckAnswered"}
    THEN (Len(L.calls) \div 2) - 1
    ELSE Len(L.calls) \div 2

\* The result of the last pass of L that is over, null if none.
LastResultOf(L) ==
    IF PassesOver(L) = 0
    THEN JsonNull
    ELSE FactCheckResultOf(L.calls[2 * PassesOver(L)])

\* The payload the i-th stage call of L must have received, given the topic
\* of L's request and the calls before it.
InputOf(L, i) ==
    IF i % 2 = 0
    THEN JsonRoundTrip(ResearchAnswerOf(L.calls[i - 1]))
    ELSE IF i = 1
    THEN JsonRoundTrip(JsonObject({"topic", "iteration"}, L.body.topic, Undef, 0, "", ""))
    ELSE JsonRoundTrip(JsonObject({"topic", "research", "iteration"}, L.body.topic,
                                  FieldResearch(FactCheckResultOf(L.calls[i - 1])),
                                  (i - 1) \div 2, "", ""))

\* The locals L of a handler invocation are what its own request, its own
\* stage calls and the completions returned to them determine.
DeterminedByOwnRun(L) ==
    /\ L.iteration = PassesOver(L)
    /\ L.finalResult = LastResultOf(L)
    /\ \A i \in 1..Len(L.calls) :
        /\ L.calls[i].input = InputOf(L, i)
        /\ L.calls[i].stage = IF i % 2 = 1 THEN "research" ELSE "factCheck"
        /\ (L.calls[i].stage = "research" /\ L.calls[i].issued) =>
            L.calls[i].prompt
                = "Research this topic: " \o TemplateString(L.body.topic)
    /\ L.pc \in {"idle", "awaitBody"} => L.calls = <<>>
    /\ (L.pc \in {"researchAsked", "factCheckAsked"}
            /\ L.calls[Len(L.calls)].issued) =>
        L.askResult = AskAI(OutcomeOf(L.calls[Len(L.calls)]))
    /\ (L.pc = "researchAnswered" /\ ~L.researchResponse.threw) =>
        L.researchResponse.body = ResearchAnswerOf(L.calls[Len(L.calls)])
    /\ L.pc = "factCheckAnswered" =>
        L.factCheckResponse.body = FactCheckResultOf(L.calls[Len(L.calls)])
    /\ L.pc = "done" => L.response = [status |-> 200, body |-> LastResultOf(L)]
    /\ L.pc = "failed" =>
        /\ L.response.status = 500
        /\ L.response.body.error
            \in {L.calls[Len(L.calls)].message,
                 "OpenAI API: " \o L.calls[Len(L.calls)].message,
                 "No topic provided"}
    /\ L.pc \notin {"done", "failed"} => L.response = NoResponse

\* C12: with two runs interleaved in any order, the iteration state, the
\* sequence of stage calls and the answer of each run are determined by its
\* own topic and the completions returned to its own calls.
C12_RunsDoNotInterfere ==
    /\ DeterminedByOwnRun(Locals)
    /\ DeterminedByOwnRun(parked)

\* Both runs are in flight with different topics and neither is waiting for
\* a completion: one has entered the research stage of its second pass and
\* sent no request yet, the other's first fact-check answer is on its way
\* back to its handler.
C12_Witness ==
    /\ body.topic # parked.body.topic
    /\ pc = "inResearch"
    /\ Len(calls) = 3
    /\ parked.pc = "factCheckAnswered"
    /\ Len(parked.calls) = 2

\* Two logged research calls that received the same topic and the same
\* iteration sent the same prompt.
SamePrompt(c, d) ==
    (/\ c.stage = "research" /\ c.issued
     /\ d.stage = "research" /\ d.issued
     /\ FieldTopic(c.input) = FieldTopic(d.input)
     /\ IterationOrZero(c.input) = IterationOrZero(d.input))
        => c.prompt = d.prompt

\* C15: any two research stage calls, of the same run or of two runs, that
\* receive the same topic and the same iteration send the same prompt,
\* whatever was called before and whatever else their payloads carry.
C15_PromptDeterministic ==
    /\ \A i \in 1..Len(calls) :
        /\ \A j \in 1..Len(parked.calls) : SamePrompt(calls[i], parked.calls[j])
        /\ \A j \in 1..Len(calls) : SamePrompt(calls[i], calls[j])
    /\ \A i \in 1..Len(parked.calls) :
        \A j \in 1..Len(parked.calls) : SamePrompt(parked.calls[i], parked.calls[j])

\* Two runs with the same topic each issued the research call of their
\* second pass (iteration 1), after fact-check results that differ.
C15_Witness ==
    /\ body.topic = parked.body.topic
    /\ Len(calls) >= 3
    /\ Len(parked.calls) >= 3
    /\ calls[3].issued
    /\ parked.calls[3].issued
    /\ IterationOrZero(calls[3].input) = 1
    /\ IterationOrZero(parked.calls[3].input) = 1
    /\ FieldResearch(calls[3].input) # FieldResearch(parked.calls[3].input)
====
